---- MODULE Spec2Model ----
(***************************************************************************)
(* A model of bot.py: the Telegram bot that downloads a video with yt-dlp  *)
(* and sends it to the chat, whole or split into parts.                    *)
(*                                                                         *)
(* Three specifications share the module:                                  *)
(*   SpecSplit  split_file as a pure function of (file bytes, chunk size)  *)
(*   SpecNames  split_file one loop iteration at a time, for many parts    *)
(*   Spec       handle_download run for two updates over one scratch       *)
(*              directory: one action per call the event loop or a pool    *)
(*              thread makes on the disk, on the chat or on the library    *)
(***************************************************************************)
EXTENDS Integers, Sequences, FiniteSets, TLC

VARIABLES
    sf_data,    \* split_file: the bytes of the file at `path`
    sf_chunk,   \* split_file: the chunk_size argument
    sf_parts,   \* split_file: the returned list `parts` (the part paths)
    sf_files,   \* split_file: the disk, path -> bytes (the source and the parts written)
    sf_pc,      \* "ready" before the call, "reading" in the loop, "returned" or "raised" after
    sf_idx,     \* split_file: the local `idx`
    sf_pos,     \* split_file: the read offset of `f`
    pc,         \* handle_download: where each request's coroutine stands
    url,        \* the url argument of each request
    filepath,   \* the path returned by download_with_ytdlp, NoPath before
    size,       \* the value of os.path.getsize(filepath), -1 before the size check
    parts,      \* the list returned by split_file (sequence indices), <<>> before
    idx,        \* position of the `for p in parts` loop (1-based), 0 outside the loop
    err,        \* the text of the exception being handled, NoErr if none
    fs,         \* the scratch directory: path -> file
    msgs,       \* per request, the reply_text / edit_text calls made, in order
    uploads,    \* per request, the send_document calls made, in order
    removed,    \* per request, the paths os.remove was called on
    splitCalls, \* per request, the number of split_file calls
    delFails,   \* per request, how many os.remove calls on an existing file raised
    escaped,    \* per request, whether an exception left handle_download
    fetchCalls, \* per request, the number of download_with_ytdlp calls
    sent,       \* per request, the documents given to send_document (what was read)
    frame,      \* per request, the locals of its running split_file call
    dl,         \* per request, the locals of its running download_with_ytdlp call
    video,      \* per video id, the bytes of the file yt-dlp makes of it (-1: not known yet)
    concurrent_updates  \* whether the Application runs handlers side by side

splitVars == <<sf_data, sf_chunk, sf_parts, sf_files, sf_pc, sf_idx, sf_pos>>
botVars == <<pc, url, filepath, size, parts, idx, err, fs, msgs, uploads, removed,
             splitCalls, delFails, escaped, fetchCalls, sent, frame, dl,
             video, concurrent_updates>>
vars == <<sf_data, sf_chunk, sf_parts, sf_files, sf_pc, sf_idx, sf_pos,
          pc, url, filepath, size, parts, idx, err, fs, msgs, uploads, removed,
          splitCalls, delFails, escaped, fetchCalls, sent, frame, dl,
          video, concurrent_updates>>

(***************************************************************************)
(* Bounds of the model.                                                    *)
(***************************************************************************)
MaxLen == 5         \* longest file given to split_file in SpecSplit, in bytes
MaxChunk == 3       \* largest chunk_size given to split_file in SpecSplit
MaxByte == 1        \* byte values range over 0..MaxByte in SpecSplit
MaxParts == 3       \* the largest download takes MaxParts parts
MaxDelFailures == 1 \* os.remove calls of one request that may raise
MaxPieces == 2      \* pieces in which the bytes of one pf.write reach the disk
MaxNameParts == 1000 \* parts written by split_file in SpecNames

(***************************************************************************)
(* Configuration (bot.py, "Bot upload limits").                            *)
(***************************************************************************)
TG_SIZE_LIMIT == 50 * 1024 * 1024
CHUNK_SIZE == 48 * 1024 * 1024

(***************************************************************************)
(* Text.  Exception texts are sequences of one-character strings, so that  *)
(* str.lower() and the `in` operator work on them as they do on a str.     *)
(* The alphabet of the texts is Latin-1 (code points 0 to 255): UPPER and  *)
(* LOWER list every letter of it that str.lower() changes, and each of     *)
(* them becomes one character, so str.lower() keeps the length.            *)
(***************************************************************************)
UPPER == <<"A","B","C","D","E","F","G","H","I","J","K","L","M","N","O","P",
           "Q","R","S","T","U","V","W","X","Y","Z","À","Á","Â","Ã","Ä","Å",
           "Æ","Ç","È","É","Ê","Ë","Ì","Í","Î","Ï","Ð","Ñ","Ò","Ó","Ô","Õ",
           "Ö","Ø","Ù","Ú","Û","Ü","Ý","Þ">>
LOWER == <<"a","b","c","d","e","f","g","h","i","j","k","l","m","n","o","p",
           "q","r","s","t","u","v","w","x","y","z","à","á","â","ã","ä","å",
           "æ","ç","è","é","ê","ë","ì","í","î","ï","ð","ñ","ò","ó","ô","õ",
           "ö","ø","ù","ú","û","ü","ý","þ">>

\* One character of str.lower(): a cased letter of the table becomes its
\* lower-case letter, any other character of the alphabet stays.
lower_char(c) ==
    IF \E i \in 1..Len(UPPER) : UPPER[i] = c
    THEN LOWER[CHOOSE i \in 1..Len(UPPER) : UPPER[i] = c]
    ELSE c

\* A lower() that forgets to fold: the match becomes case-sensitive.
str_lower_identity(s) == s

\* msg.lower()
str_lower(s) == [i \in 1..Len(s) |-> lower_char(s[i])]

\* needle in hay
str_in(needle, hay) ==
    \E k \in 0..(Len(hay) - Len(needle)) :
        SubSeq(hay, k + 1, k + Len(needle)) = needle

KW_AGE == <<"a","g","e","-","r","e","s","t","r","i","c","t","e","d">>
KW_LOGIN == <<"l","o","g","i","n">>
KW_PRIVATE == <<"p","r","i","v","a","t","e">>

\* The condition of line 135: whether the failure message gets the cookies hint.
needs_hint(msg) ==
    \/ str_in(KW_AGE, str_lower(msg))
    \/ str_in(KW_LOGIN, str_lower(msg))
    \/ str_in(KW_PRIVATE, str_lower(msg))

\* f"yt-dlp DownloadError: {e}", the text of the RuntimeError of line 67
DL_PREFIX == <<"y","t","-","d","l","p"," ","D","o","w","n","l","o","a","d","E","r","r","o","r",":"," ">>
download_error_text(e) == DL_PREFIX \o e

\* The RuntimeError of line 85.
NOT_FOUND_TEXT == <<"D","o","w","n","l","o","a","d"," ","c","o","m","p","l","e","t","e","d"," ","b","u","t"," ","o","u","t","p","u","t"," ","f","i","l","e"," ","n","o","t"," ","f","o","u","n","d">>

\* str(e) of an OSError raised by a call that had no path (pf.write):
\* "[Errno N] strerror".
os_error_text(no, strerror) ==
    <<"[","E","r","r","n","o"," ">> \o no \o <<"]"," ">> \o strerror

\* str(e) of an OSError raised by a call on a path (open, os.path.getsize,
\* os.remove): "[Errno N] strerror: 'path'".
os_error_text_at(no, strerror, path) ==
    os_error_text(no, strerror) \o <<":"," ","'">> \o path \o <<"'">>

\* Texts yt-dlp's DownloadError may carry (inputs of the model).
LibErrors == {
    <<"P","r","i","v","a","t","e"," ","v","i","d","e","o">>,
    <<"L","O","G","I","N"," ","r","e","q","u","i","r","e","d">>,
    <<"S","i","g","n"," ","i","n",":"," ","A","g","e","-","R","e","s","t","r","i","c","t","e","d">>,
    <<"V","i","d","É","O"," ","P","R","I","V","É","E">>,
    <<"l","o","g"," ","i","n"," ","t","o"," ","v","i","e","w">> }

\* Texts of the exceptions extract_info raises that are no DownloadError: line
\* 66 does not catch them (inputs of the model).
OtherErrors == {
    <<"P","r","i","v","a","t","e"," ","v","i","d","e","o">>,
    <<"M","a","x"," ","d","o","w","n","l","o","a","d","s"," ","r","e","a","c","h","e","d">> }

(***************************************************************************)
(* split_file (lines 88-101).                                              *)
(***************************************************************************)
\* A read that returns nothing for a final short window: the tail is lost.
read_len_drop_tail(n, pos, c) == IF n - pos < c THEN 0 ELSE c

\* A read that returns one byte more than it was asked for.
read_len_over(n, pos, c) == IF n - pos < c + 1 THEN n - pos ELSE c + 1

\* len(f.read(chunk_size)) at offset pos of a file of n bytes.
read_len(n, pos, c) == IF n - pos < c THEN n - pos ELSE c

\* idx += 1
next_idx(i) == i + 1

\* The `while True` loop: the windows read, each with the idx it is written under.
RECURSIVE split_loop(_, _, _, _, _)
split_loop(n, pos, c, i, acc) ==
    LET len == read_len(n, pos, c) IN
    IF len = 0
    THEN acc
    ELSE split_loop(n, pos + len, c, next_idx(i),
                    Append(acc, [idx |-> i, off |-> pos, len |-> len]))

\* A loop that tests `if not chunk` only after writing: a file that ends on a
\* window boundary (the empty file too) gets an empty last part.
split_windows_late_break(n, c) ==
    LET w == split_loop(n, 0, c, 1, <<>>) IN
    IF n % c = 0
    THEN Append(w, [idx |-> Len(w) + 1, off |-> n, len |-> 0])
    ELSE w

\* The windows of a file of n bytes read with chunk size c, idx starting at 1.
split_windows(n, c) == split_loop(n, 0, c, 1, <<>>)

\* split_file on the bytes: the part files written, in the order of `parts`.
split_file(data, c) ==
    LET w == split_windows(Len(data), c) IN
    [k \in 1..Len(w) |->
        [idx |-> w[k].idx, data |-> SubSeq(data, w[k].off + 1, w[k].off + w[k].len)]]

(***************************************************************************)
(* Paths.  A path is a sequence of characters; part_path is line 96,       *)
(* f"{path}.part{idx:03d}".                                                *)
(***************************************************************************)
DIGITS == <<"0","1","2","3","4","5","6","7","8","9">>

\* The decimal digits of i >= 0, most significant first.
RECURSIVE digits(_)
digits(i) ==
    IF i < 10 THEN <<DIGITS[i + 1]>> ELSE digits(i \div 10) \o <<DIGITS[(i % 10) + 1]>>

\* The minimum field width of the format spec 03d.
PART_WIDTH == 3

\* f"{idx:03d}": the digits, zero-padded on the left to PART_WIDTH characters;
\* a longer number is not truncated.
fmt_03d(i) ==
    LET d == digits(i) IN
    IF Len(d) >= PART_WIDTH THEN d ELSE [k \in 1..(PART_WIDTH - Len(d)) |-> "0"] \o d

\* A part path that forgets the suffix: the part is written over its source.
part_path_no_suffix(p, i) == p

\* f"{path}.part{idx:03d}"
part_path(p, i) == p \o <<".","p","a","r","t">> \o fmt_03d(i)

\* TMP_DIR (line 28)
TMP_DIR == <<"/","t","m","p">>

\* os.path.join(d, name): name inside directory d.
os_path_join(d, name) == d \o <<"/">> \o name

\* '%(id)s.%(ext)s' for video id u (line 48), the extension mp4 (line 52).
media_name(u) == u \o <<".","m","p","4">>

\* outtmpl: TMP_DIR/<id>.<ext> for video id u (line 48).
media_path(u) == os_path_join(TMP_DIR, media_name(u))

(***************************************************************************)
(* SpecSplit: split_file applied to every file of at most MaxLen bytes and *)
(* every chunk size 1..MaxChunk.                                           *)
(***************************************************************************)
Bytes == 0..MaxByte
FileContents == UNION {[1..n -> Bytes] : n \in 0..MaxLen}

\* The path given to split_file in SpecSplit.
SRC == media_path(<<"v">>)

\* The disk after split_file(src, ...) on a source holding `data` made the
\* writes of `res`, in order: a later write to the same path replaces what
\* was there (open(part_path, 'wb')).
written(src, data, res) ==
    [q \in {src} \cup {part_path(src, res[k].idx) : k \in 1..Len(res)} |->
        IF \E k \in 1..Len(res) : part_path(src, res[k].idx) = q
        THEN res[CHOOSE k \in 1..Len(res) :
                    /\ part_path(src, res[k].idx) = q
                    /\ \A j \in 1..Len(res) : part_path(src, res[j].idx) = q => j <= k].data
        ELSE data]

SplitIdle ==
    /\ sf_data = <<>>
    /\ sf_chunk = 1
    /\ sf_parts = <<>>
    /\ sf_files = <<>>
    /\ sf_pc = "ready"
    /\ sf_idx = 1
    /\ sf_pos = 0

SplitCall ==
    /\ sf_pc = "ready"
    /\ LET res == split_file(sf_data, sf_chunk) IN
        /\ sf_parts' = [k \in 1..Len(res) |-> part_path(SRC, res[k].idx)]
        /\ sf_files' = written(SRC, sf_data, res)
        /\ sf_idx' = IF res = <<>> THEN 1 ELSE next_idx(res[Len(res)].idx)
    /\ sf_pos' = Len(sf_data)
    /\ sf_pc' = "returned"
    /\ UNCHANGED <<sf_data, sf_chunk>>
    /\ UNCHANGED botVars

\* split_file raises after k parts were written: open(part_path, 'wb') fails
\* (line 97) and leaves no file, or pf.write fails (line 98) and leaves the
\* file it opened holding the first m bytes of the chunk, m less than its
\* length.  sf_parts is the local list at that point, it is not returned.
SplitCallRaises ==
    /\ sf_pc = "ready"
    /\ LET res == split_file(sf_data, sf_chunk) IN
        \E k \in 0..(Len(res) - 1) :
            /\ sf_parts' = [j \in 1..k |-> part_path(SRC, res[j].idx)]
            /\ \/ sf_files' = written(SRC, sf_data, SubSeq(res, 1, k))
               \/ \E m \in 0..(Len(res[k + 1].data) - 1) :
                     sf_files' = written(SRC, sf_data,
                                     Append(SubSeq(res, 1, k),
                                            [idx |-> res[k + 1].idx,
                                             data |-> SubSeq(res[k + 1].data, 1, m)]))
            /\ sf_idx' = res[k + 1].idx
            /\ sf_pos' = Len(res[k + 1].data) +
                             (IF k = 0 THEN 0 ELSE k * sf_chunk)
    /\ sf_pc' = "raised"
    /\ UNCHANGED <<sf_data, sf_chunk>>
    /\ UNCHANGED botVars

(***************************************************************************)
(* handle_download (lines 125-183).                                        *)
(***************************************************************************)
\* Two requests in flight: enough for every interference between a pair.
Requests == {1, 2}
\* The video ids asked for; the second one holds a keyword of line 135.
Urls == {<<"u","1">>, <<"l","o","g","i","n","9">>}

NoPath == "none"
NoErr == <<>>
\* A file on disk: the request that made it, its size, and the requests that
\* hold it open for writing.  A file that a write has filled in part only is
\* `short`: it holds some number of bytes m with 0 < m < size, whichever the
\* write got to; any other file holds exactly `size` bytes.  NoFile: nothing
\* at the path.
NoFile == [owner |-> 0, size |-> -1, short |-> FALSE, writers |-> {}]

\* A whole file of n bytes made by request r, open in no one's hands.
whole_file(r, n) == [owner |-> r, size |-> n, short |-> FALSE, writers |-> {}]

\* No split_file call is running: n is the size of the open source f (-1: not
\* opened), pos its read offset, idx and parts the locals of lines 89-100,
\* chunk the length of the chunk read and not yet written, wrote the pieces of
\* it pf.write has put on disk, at the call the thread makes next or is in
\* (open of line 90, read of line 93, write of line 98).
NoFrame == [n |-> -1, pos |-> 0, idx |-> 1, parts |-> <<>>, chunk |-> 0,
            wrote |-> 0, at |-> "open@90"]

\* The name of a file that an interrupted download leaves behind: like every
\* file yt-dlp makes for the video under outtmpl (line 48) it starts with
\* "<id>.".
leftover_name(u) == media_name(u) \o <<".","p","a","r","t">>

\* The paths of the scratch directory: every media file, its part files and
\* what a failed download leaves.
Names ==
    {media_name(u) : u \in Urls}
        \cup {part_path(media_name(u), i) : u \in Urls, i \in 1..(MaxParts + 1)}
        \cup {leftover_name(u) : u \in Urls}
Paths == {os_path_join(TMP_DIR, fname) : fname \in Names}

\* Sizes a download may have: empty, the limit, one byte more (two parts), and
\* MaxParts - 1/2 chunks (MaxParts parts) for the largest one.
LargestSize == MaxParts * CHUNK_SIZE - CHUNK_SIZE \div 2
Sizes == {0, TG_SIZE_LIMIT, TG_SIZE_LIMIT + 1, LargestSize}

\* What os.path.getsize may return, and what a reader may find, for a file: its
\* size, or for a short file a number below it.  The handler compares the
\* number with 0 (line 81) and with TG_SIZE_LIMIT (line 148) only, so of the
\* numbers below the size the ones next to those two and the largest are kept.
stat_sizes(file) ==
    IF file.short
    THEN {m \in {1, TG_SIZE_LIMIT, TG_SIZE_LIMIT + 1, file.size - 1} : 0 < m /\ m < file.size}
    ELSE {file.size}

\* The document send_document reads from an open file (lines 151-152, 170-171):
\* all that is in the file when it is read.
document(file) == [size |-> file.size, short |-> file.short]

\* No download_with_ytdlp call is past extract_info: filename is the local of
\* lines 68-86, cands the names os.listdir gave that the loop of line 78 has
\* still to look at.
NoScan == [filename |-> NoPath, cands |-> {}]

\* str(e) of the exceptions send_document, edit_text, open and write raise.
UploadErrors == {<<"T","i","m","e","d"," ","o","u","t">>}
EDIT_ERROR == <<"M","e","s","s","a","g","e"," ","c","a","n","'","t"," ","b","e"," ","e","d","i","t","e","d">>
ENOENT(path) ==
    os_error_text_at(<<"2">>, <<"N","o"," ","s","u","c","h"," ","f","i","l","e"," ","o","r"," ","d","i","r","e","c","t","o","r","y">>, path)
EPERM(path) ==
    os_error_text_at(<<"1">>, <<"O","p","e","r","a","t","i","o","n"," ","n","o","t"," ","p","e","r","m","i","t","t","e","d">>, path)
NO_SPACE == <<"N","o"," ","s","p","a","c","e"," ","l","e","f","t"," ","o","n"," ","d","e","v","i","c","e">>
ENOSPC == os_error_text(<<"2","8">>, NO_SPACE)
ENOSPC_AT(path) == os_error_text_at(<<"2","8">>, NO_SPACE, path)

\* str(e) of every exception download_with_ytdlp raises: the rethrown
\* DownloadError, any other exception of extract_info, the RuntimeError of
\* line 85, the OSError of os.path.getsize (line 81) on a listed name.
FetchErrors ==
    {download_error_text(e) : e \in LibErrors} \cup OtherErrors
        \cup {NOT_FOUND_TEXT} \cup {ENOENT(p) : p \in Paths}

\* The state before any update is handled: the requests carry the urls u and
\* the Application handles updates side by side or one at a time (c).
BotFresh(u, c) ==
    /\ pc = [r \in Requests |-> "start"]
    /\ url = u
    /\ video = [x \in Urls |-> -1]
    /\ concurrent_updates = c
    /\ filepath = [r \in Requests |-> NoPath]
    /\ size = [r \in Requests |-> -1]
    /\ parts = [r \in Requests |-> <<>>]
    /\ idx = [r \in Requests |-> 0]
    /\ err = [r \in Requests |-> NoErr]
    /\ fs = [p \in Paths |-> NoFile]
    /\ msgs = [r \in Requests |-> <<>>]
    /\ uploads = [r \in Requests |-> <<>>]
    /\ removed = [r \in Requests |-> {}]
    /\ splitCalls = [r \in Requests |-> 0]
    /\ delFails = [r \in Requests |-> 0]
    /\ escaped = [r \in Requests |-> FALSE]
    /\ fetchCalls = [r \in Requests |-> 0]
    /\ sent = [r \in Requests |-> <<>>]
    /\ frame = [r \in Requests |-> NoFrame]
    /\ dl = [r \in Requests |-> NoScan]

InitSplit ==
    /\ sf_data \in FileContents
    /\ sf_chunk \in 1..MaxChunk
    /\ sf_parts = <<>>
    /\ sf_files = [q \in {SRC} |-> sf_data]
    /\ sf_pc = "ready"
    /\ sf_idx = 1
    /\ sf_pos = 0
    /\ BotFresh([r \in Requests |-> <<"u","1">>], TRUE)

NextSplit == SplitCall \/ SplitCallRaises

SpecSplit == InitSplit /\ [][NextSplit]_vars

(***************************************************************************)
(* SpecNames: split_file run one loop iteration at a time with chunk size  *)
(* 1 on a file of MaxNameParts bytes, so that it writes MaxNameParts       *)
(* parts.                                                                  *)
(***************************************************************************)
InitNames ==
    /\ sf_data = [i \in 1..MaxNameParts |-> 0]
    /\ sf_chunk = 1
    /\ sf_parts = <<>>
    /\ sf_files = [q \in {SRC} |-> sf_data]
    /\ sf_pc = "ready"
    /\ sf_idx = 1
    /\ sf_pos = 0
    /\ BotFresh([r \in Requests |-> <<"u","1">>], TRUE)

\* One iteration of `while True` (lines 92-100): read a chunk; stop on an empty
\* read, else write it to part_path, append the path and increment idx.
SplitStep ==
    /\ sf_pc \in {"ready", "reading"}
    /\ LET len == read_len(Len(sf_data), sf_pos, sf_chunk)
           p == part_path(SRC, sf_idx)
       IN IF len = 0
          THEN /\ sf_pc' = "returned"
               /\ UNCHANGED <<sf_parts, sf_files, sf_idx, sf_pos>>
          ELSE /\ sf_pc' = "reading"
               /\ sf_pos' = sf_pos + len
               /\ sf_files' = [q \in DOMAIN sf_files \cup {p} |->
                                 IF q = p THEN SubSeq(sf_data, sf_pos + 1, sf_pos + len)
                                 ELSE sf_files[q]]
               /\ sf_parts' = Append(sf_parts, p)
               /\ sf_idx' = next_idx(sf_idx)
    /\ UNCHANGED <<sf_data, sf_chunk>>
    /\ UNCHANGED botVars

NextNames == SplitStep

SpecNames == InitNames /\ [][NextNames]_vars

(***************************************************************************)
(* Helpers of the handler's actions.                                       *)
(***************************************************************************)
Terminal == {"Done", "Failed"}

Msg(kind, cause, hint, ok) == [kind |-> kind, cause |-> cause, hint |-> hint, ok |-> ok]

\* One reply_text / edit_text call of request r, delivered (ok) or raising.
Say(r, kind, cause, hint, ok) ==
    msgs' = [msgs EXCEPT ![r] = Append(@, Msg(kind, cause, hint, ok))]

\* os.remove(p) inside try/except-pass: the file goes unless the call raises.
os_remove(f, p, delOk) == IF delOk THEN [f EXCEPT ![p] = NoFile] ELSE f

\* The outcomes of os.remove(p) on filesystem f after df failed removals: it may
\* raise on an existing file (at most MaxDelFailures times for one request).
del_outcomes(f, p, df) ==
    IF f[p] # NoFile /\ df < MaxDelFailures THEN BOOLEAN ELSE {TRUE}

\* The count of failed removals after one more os.remove(p) with outcome delOk.
del_count(df, delOk) == IF delOk THEN df ELSE df + 1

\* os.remove(p) without its try/except: a failed removal raises into the handler.
remove_raises_unguarded(delOk) == ~delOk

\* try: os.remove(p) / except: pass (lines 172-175): whatever os.remove did,
\* nothing is raised into the handler.
remove_raises(delOk) == FALSE

\* The coroutine of request q is running on the event loop's thread between two
\* awaits: after os.remove(p) of line 173 it goes on to the next open (line
\* 170) or to os.remove(filepath) (line 177) without giving the loop back.
\* download_with_ytdlp and split_file are not in this list: they are handed to
\* a pool thread with run_in_executor (lines 130, 168) and the coroutine awaits
\* them.
Blocking(q) == pc[q] = "for@169"

\* The event loop can run a step of r's coroutine: no other coroutine holds it.
LoopFree(r) == \A q \in Requests \ {r} : ~Blocking(q)

\* The Application built by main() (lines 189-194) starts the handler for update
\* r: at any time when it handles updates side by side, and when it handles
\* them one at a time only while no other handler is running.  main() sets
\* neither concurrent_updates on the builder nor block on the handlers, so
\* which of the two applies is the library's choice.
Dispatched(r) ==
    concurrent_updates \/ \A q \in Requests \ {r} : pc[q] \in {"start"} \cup Terminal

\* Line 148 compared with `<`: a file of exactly the limit would be split.
fits_inline_strict(sz) == sz < TG_SIZE_LIMIT

\* Line 148 off by one the other way: a file one byte over the limit is sent whole.
fits_inline_loose(sz) == sz <= TG_SIZE_LIMIT + 1

\* size <= TG_SIZE_LIMIT (line 148)
fits_inline(sz) == sz <= TG_SIZE_LIMIT

\* A loop that steps over every other part.
next_part_skip(i) == i + 2

\* `for p in parts` (line 169): the loop body runs for position i of n parts.
has_next(i, n) == i <= n

\* os.remove on the last part of the list, whatever part was just sent.
remove_target_last(ps, i) == ps[Len(ps)]

\* os.remove(p) (line 173): p is the loop variable, the part just sent.
remove_target(ps, i) == ps[i]

\* A loop that never advances: the same part is taken again.
next_part_repeat(i) == i

\* `for p in parts` (line 169): the position after position i.
next_part(i) == i + 1

\* Line 163 without its `return`: control falls through to the split path.
DirectSendFallThrough == "edit_splitting"

\* The `return` of line 163: the handler ends after the direct send.
DirectSendReturn == "Done"

\* Line 156 without its `return`: control goes on to the success edit of line 162.
UploadFailedFallThrough == "edit_done_direct"

\* The `return` of line 156: the handler ends after the upload-failed edit.
UploadFailedReturn == "Failed"

\* A status call outside any try block: on failure the exception leaves the handler.
Leave(r, ok, next) ==
    /\ pc' = [pc EXCEPT ![r] = IF ok THEN next ELSE "Failed"]
    /\ escaped' = [escaped EXCEPT ![r] = ~ok]

(***************************************************************************)
(* Lines 126-139: acknowledgement, download, download failure.             *)
(***************************************************************************)
\* The Application starts handle_download for the update and
\* status = await update.message.reply_text("Queued: ...") is made (line 127).
Ack(r) ==
    /\ pc[r] = "start"
    /\ Dispatched(r)
    /\ LoopFree(r)
    /\ \E ok \in BOOLEAN :
        /\ Say(r, "Queued", NoErr, FALSE, ok)
        /\ Leave(r, ok, "downloading")
    /\ UNCHANGED <<url, filepath, size, parts, idx, err, fs, uploads, removed,
                   splitCalls, delFails>>
    /\ UNCHANGED <<fetchCalls, sent>>
    /\ UNCHANGED <<frame, dl>>
    /\ UNCHANGED <<video, concurrent_updates>>
    /\ UNCHANGED splitVars

\* s.startswith(pre)
starts_with(s, pre) == Len(s) >= Len(pre) /\ SubSeq(s, 1, Len(pre)) = pre

\* os.listdir(outdir), kept to the names that start with "<id>." (lines 77-78),
\* on disk f for video u.
listdir(f, u) ==
    {cand \in Paths : /\ f[cand] # NoFile
                      /\ \E fname \in Names : /\ starts_with(fname, u \o <<".">>)
                                              /\ cand = os_path_join(TMP_DIR, fname)}

\* ydl.extract_info(url, download=True) returns in the executor thread (line
\* 65): the file of the video is at outtmpl = TMP_DIR/<id>.<ext>.  The path
\* depends on the video alone, so requests for one URL share it, and so do the
\* bytes: ydl_opts (lines 46-56) asks for no overwrite, and a file that is
\* already there for the video is the file the call reports.  A file that was
\* not there is made, and is attributed to the request.  The size of a video
\* is an input, drawn when the first download of it returns.
ExtractInfo(r) ==
    /\ pc[r] = "downloading"
    /\ LET out == media_path(url[r]) IN
       \E n \in IF video[url[r]] = -1 THEN Sizes ELSE {video[url[r]]} :
          /\ video' = [video EXCEPT ![url[r]] = n]
          /\ fs' = IF fs[out] = NoFile
                   THEN [fs EXCEPT ![out] = whole_file(r, n)]
                   ELSE fs
    /\ pc' = [pc EXCEPT ![r] = "fetched"]
    /\ fetchCalls' = [fetchCalls EXCEPT ![r] = @ + 1]
    /\ UNCHANGED <<url, filepath, size, parts, idx, err, msgs, uploads, removed,
                   splitCalls, delFails, escaped, sent>>
    /\ UNCHANGED <<frame, dl>>
    /\ UNCHANGED concurrent_updates
    /\ UNCHANGED splitVars

\* Lines 68-76: filename is the output path; when it is on disk the fallback is
\* skipped.
Probe(r) ==
    /\ pc[r] = "fetched"
    /\ LET out == media_path(url[r]) IN
       /\ dl' = [dl EXCEPT ![r] = [filename |-> out, cands |-> {}]]
       /\ pc' = [pc EXCEPT ![r] = IF fs[out] # NoFile THEN "found" ELSE "listing"]
    /\ UNCHANGED <<url, filepath, size, parts, idx, err, fs, msgs, uploads, removed,
                   splitCalls, delFails, escaped, fetchCalls, sent>>
    /\ UNCHANGED frame
    /\ UNCHANGED <<video, concurrent_updates>>
    /\ UNCHANGED splitVars

\* os.listdir(outdir) of the fallback (line 78): the names on disk at this
\* moment, of which the loop looks at those that start with "<id>.".
ListDir(r) ==
    /\ pc[r] = "listing"
    /\ LET names == listdir(fs, url[r]) IN
       /\ dl' = [dl EXCEPT ![r] = [@ EXCEPT !.cands = names]]
       /\ pc' = [pc EXCEPT ![r] = IF names = {} THEN "found" ELSE "scanning"]
    /\ UNCHANGED <<url, filepath, size, parts, idx, err, fs, msgs, uploads, removed,
                   splitCalls, delFails, escaped, fetchCalls, sent>>
    /\ UNCHANGED frame
    /\ UNCHANGED <<video, concurrent_updates>>
    /\ UNCHANGED splitVars

\* One turn of the loop of lines 77-83, the names coming in no particular
\* order: os.path.getsize raises for a name that is gone since the listing (the
\* handler catches it, line 131), a file that is not empty becomes filename
\* and ends the loop, an empty one is passed over.
ScanNext(r) ==
    /\ pc[r] = "scanning"
    /\ \E c \in dl[r].cands :
        IF fs[c] = NoFile
        THEN /\ err' = [err EXCEPT ![r] = ENOENT(c)]
             /\ dl' = [dl EXCEPT ![r] = NoScan]
             /\ pc' = [pc EXCEPT ![r] = "edit_dlfail"]
        ELSE /\ \E sz \in stat_sizes(fs[c]) :
                  dl' = [dl EXCEPT ![r] =
                          IF sz > 0
                          THEN [filename |-> c, cands |-> {}]
                          ELSE [@ EXCEPT !.cands = @ \ {c}]]
             /\ pc' = [pc EXCEPT ![r] =
                          IF dl'[r].cands = {} THEN "found" ELSE "scanning"]
             /\ UNCHANGED err
    /\ UNCHANGED <<url, filepath, size, parts, idx, fs, msgs, uploads, removed,
                   splitCalls, delFails, escaped, fetchCalls, sent>>
    /\ UNCHANGED frame
    /\ UNCHANGED <<video, concurrent_updates>>
    /\ UNCHANGED splitVars

\* filename is on disk (line 84): download_with_ytdlp returns it (lines 86, 130).
DownloadOk(r) ==
    /\ pc[r] = "found"
    /\ fs[dl[r].filename] # NoFile
    /\ filepath' = [filepath EXCEPT ![r] = dl[r].filename]
    /\ dl' = [dl EXCEPT ![r] = NoScan]
    /\ pc' = [pc EXCEPT ![r] = "downloaded"]
    /\ UNCHANGED <<url, size, parts, idx, err, fs, msgs, uploads, removed,
                   splitCalls, delFails, escaped, fetchCalls, sent>>
    /\ UNCHANGED frame
    /\ UNCHANGED <<video, concurrent_updates>>
    /\ UNCHANGED splitVars

\* filename is not on disk (lines 84-85); the handler catches the RuntimeError
\* (line 131).
DownloadNotFound(r) ==
    /\ pc[r] = "found"
    /\ fs[dl[r].filename] = NoFile
    /\ err' = [err EXCEPT ![r] = NOT_FOUND_TEXT]
    /\ dl' = [dl EXCEPT ![r] = NoScan]
    /\ pc' = [pc EXCEPT ![r] = "edit_dlfail"]
    /\ UNCHANGED <<url, filepath, size, parts, idx, fs, msgs, uploads, removed,
                   splitCalls, delFails, escaped, fetchCalls, sent>>
    /\ UNCHANGED frame
    /\ UNCHANGED <<video, concurrent_updates>>
    /\ UNCHANGED splitVars

\* What request r's extract_info may leave in the file it was writing when it
\* gives up: no bytes, or a part of the bytes of a video.
interrupted(r) ==
    {whole_file(r, 0),
     [owner |-> r, size |-> LargestSize, short |-> TRUE, writers |-> {}]}

\* extract_info raises: a DownloadError is rethrown as RuntimeError with the
\* prefix (lines 66-67), any other exception passes line 66 as it is; the
\* handler catches either (line 131).  Nothing in download_with_ytdlp cleans
\* up after it: the disk is as before the call, or has what the interrupted
\* download wrote under a name "<id>.*".
DownloadFail(r) ==
    /\ pc[r] = "downloading"
    /\ \E e \in {download_error_text(x) : x \in LibErrors} \cup OtherErrors :
          err' = [err EXCEPT ![r] = e]
    /\ \E left \in {NoFile} \cup interrupted(r) :
          fs' = IF left = NoFile
                THEN fs
                ELSE [fs EXCEPT ![os_path_join(TMP_DIR, leftover_name(url[r]))] = left]
    /\ pc' = [pc EXCEPT ![r] = "edit_dlfail"]
    /\ fetchCalls' = [fetchCalls EXCEPT ![r] = @ + 1]
    /\ UNCHANGED <<url, filepath, size, parts, idx, msgs, uploads, removed,
                   splitCalls, delFails, escaped, sent>>
    /\ UNCHANGED <<frame, dl>>
    /\ UNCHANGED <<video, concurrent_updates>>
    /\ UNCHANGED splitVars

\* await status.edit_text(f"Download failed: {e}{extra}"); return (lines 133-139)
EditDownloadFailed(r) ==
    /\ pc[r] = "edit_dlfail"
    /\ LoopFree(r)
    /\ \E ok \in BOOLEAN :
        /\ Say(r, "DownloadFailed", err[r], needs_hint(err[r]), ok)
        /\ Leave(r, ok, "Failed")
    /\ UNCHANGED <<url, filepath, size, parts, idx, err, fs, uploads, removed,
                   splitCalls, delFails>>
    /\ UNCHANGED <<fetchCalls, sent>>
    /\ UNCHANGED <<frame, dl>>
    /\ UNCHANGED <<video, concurrent_updates>>
    /\ UNCHANGED splitVars

(***************************************************************************)
(* Lines 141-148: the size check.                                          *)
(***************************************************************************)
\* size = os.path.getsize(filepath), then the branch of line 148.
SizeCheck(r) ==
    /\ pc[r] = "downloaded"
    /\ LoopFree(r)
    /\ IF fs[filepath[r]] = NoFile
       THEN /\ err' = [err EXCEPT ![r] = ENOENT(filepath[r])]
            /\ pc' = [pc EXCEPT ![r] = "edit_access"]
            /\ UNCHANGED size
       ELSE /\ \E sz \in stat_sizes(fs[filepath[r]]) :
                  /\ size' = [size EXCEPT ![r] = sz]
                  /\ pc' = [pc EXCEPT ![r] =
                              IF fits_inline(sz) THEN "edit_uploading" ELSE "edit_splitting"]
            /\ UNCHANGED err
    /\ UNCHANGED <<url, filepath, parts, idx, fs, msgs, uploads, removed,
                   splitCalls, delFails, escaped>>
    /\ UNCHANGED <<fetchCalls, sent>>
    /\ UNCHANGED <<frame, dl>>
    /\ UNCHANGED <<video, concurrent_updates>>
    /\ UNCHANGED splitVars

\* await status.edit_text(f"Downloaded but failed to access file: {e}"); return
EditAccessFailed(r) ==
    /\ pc[r] = "edit_access"
    /\ LoopFree(r)
    /\ \E ok \in BOOLEAN :
        /\ Say(r, "AccessFailed", err[r], FALSE, ok)
        /\ Leave(r, ok, "Failed")
    /\ UNCHANGED <<url, filepath, size, parts, idx, err, fs, uploads, removed,
                   splitCalls, delFails>>
    /\ UNCHANGED <<fetchCalls, sent>>
    /\ UNCHANGED <<frame, dl>>
    /\ UNCHANGED <<video, concurrent_updates>>
    /\ UNCHANGED splitVars

(***************************************************************************)
(* Lines 148-163: the direct send.                                         *)
(***************************************************************************)
\* The send_document call of request r now in flight is marked with its outcome.
settle(ups, st) == [ups EXCEPT ![Len(ups)] = [@ EXCEPT !.st = st]]

\* await status.edit_text("Uploading ...") returns; open(filepath, 'rb') and the
\* send_document call follow (lines 149-152).
EditUploading(r) ==
    /\ pc[r] = "edit_uploading"
    /\ LoopFree(r)
    /\ \E ok \in BOOLEAN :
        /\ Say(r, "Uploading", NoErr, FALSE, ok)
        /\ IF ~ok
           THEN /\ Leave(r, FALSE, "Failed")
                /\ UNCHANGED <<uploads, err, sent>>
           ELSE /\ UNCHANGED escaped
                /\ IF fs[filepath[r]] # NoFile
                   THEN /\ uploads' = [uploads EXCEPT ![r] =
                                          Append(@, [part |-> 0, st |-> "inflight"])]
                        /\ sent' = [sent EXCEPT ![r] = Append(@, document(fs[filepath[r]]))]
                        /\ pc' = [pc EXCEPT ![r] = "uploading"]
                        /\ UNCHANGED err
                   ELSE /\ err' = [err EXCEPT ![r] = ENOENT(filepath[r])]
                        /\ pc' = [pc EXCEPT ![r] = "edit_upfail"]
                        /\ UNCHANGED <<uploads, sent>>
    /\ UNCHANGED <<url, filepath, size, parts, idx, fs, removed, splitCalls, delFails>>
    /\ UNCHANGED fetchCalls
    /\ UNCHANGED <<frame, dl>>
    /\ UNCHANGED <<video, concurrent_updates>>
    /\ UNCHANGED splitVars

\* send_document of the whole file returns: the finally clause removes the file
\* (lines 157-161) and the success edit of line 162 is started.
SendWholeOk(r) ==
    /\ pc[r] = "uploading"
    /\ LoopFree(r)
    /\ uploads' = [uploads EXCEPT ![r] = settle(@, "ok")]
    /\ \E delOk \in del_outcomes(fs, filepath[r], delFails[r]) :
        /\ fs' = os_remove(fs, filepath[r], delOk)
        /\ delFails' = [delFails EXCEPT ![r] = del_count(@, delOk)]
    /\ removed' = [removed EXCEPT ![r] = @ \cup {filepath[r]}]
    /\ pc' = [pc EXCEPT ![r] = "edit_done_direct"]
    /\ UNCHANGED <<url, filepath, size, parts, idx, err, msgs, splitCalls, escaped>>
    /\ UNCHANGED <<fetchCalls, sent>>
    /\ UNCHANGED <<frame, dl>>
    /\ UNCHANGED <<video, concurrent_updates>>
    /\ UNCHANGED splitVars

\* send_document of the whole file raises: the except clause of line 153.
SendWholeFail(r) ==
    /\ pc[r] = "uploading"
    /\ LoopFree(r)
    /\ uploads' = [uploads EXCEPT ![r] = settle(@, "failed")]
    /\ \E e \in UploadErrors : err' = [err EXCEPT ![r] = e]
    /\ pc' = [pc EXCEPT ![r] = "edit_upfail"]
    /\ UNCHANGED <<url, filepath, size, parts, idx, fs, msgs, removed,
                   splitCalls, delFails, escaped>>
    /\ UNCHANGED <<fetchCalls, sent>>
    /\ UNCHANGED <<frame, dl>>
    /\ UNCHANGED <<video, concurrent_updates>>
    /\ UNCHANGED splitVars

\* await status.edit_text(f"Upload failed: {e}"); return -- and on the way out
\* the finally clause removes the file (lines 155-161).
EditUploadFailed(r) ==
    /\ pc[r] = "edit_upfail"
    /\ LoopFree(r)
    /\ \E ok \in BOOLEAN :
        /\ Say(r, "UploadFailed", err[r], FALSE, ok)
        /\ Leave(r, ok, UploadFailedReturn)
    /\ \E delOk \in del_outcomes(fs, filepath[r], delFails[r]) :
        /\ fs' = os_remove(fs, filepath[r], delOk)
        /\ delFails' = [delFails EXCEPT ![r] = del_count(@, delOk)]
    /\ removed' = [removed EXCEPT ![r] = @ \cup {filepath[r]}]
    /\ UNCHANGED <<url, filepath, size, parts, idx, err, uploads, splitCalls>>
    /\ UNCHANGED <<fetchCalls, sent>>
    /\ UNCHANGED <<frame, dl>>
    /\ UNCHANGED <<video, concurrent_updates>>
    /\ UNCHANGED splitVars

\* await status.edit_text("Done - file sent."); return (lines 162-163)
EditDoneDirect(r) ==
    /\ pc[r] = "edit_done_direct"
    /\ LoopFree(r)
    /\ \E ok \in BOOLEAN :
        /\ Say(r, "DoneSent", NoErr, FALSE, ok)
        /\ Leave(r, ok, DirectSendReturn)
    /\ UNCHANGED <<url, filepath, size, parts, idx, err, fs, uploads, removed,
                   splitCalls, delFails>>
    /\ UNCHANGED <<fetchCalls, sent>>
    /\ UNCHANGED <<frame, dl>>
    /\ UNCHANGED <<video, concurrent_updates>>
    /\ UNCHANGED splitVars

(***************************************************************************)
(* Lines 165-183: split and send the parts.                                *)
(***************************************************************************)
\* await status.edit_text("File is ... Splitting into parts...") (line 166);
\* split_file is then handed to the executor (line 168).
EditSplitting(r) ==
    /\ pc[r] = "edit_splitting"
    /\ LoopFree(r)
    /\ \E ok \in BOOLEAN :
        /\ Say(r, "Splitting", NoErr, FALSE, ok)
        /\ Leave(r, ok, "splitting")
    /\ UNCHANGED <<url, filepath, size, parts, idx, err, fs, uploads, removed,
                   splitCalls, delFails>>
    /\ UNCHANGED <<fetchCalls, sent>>
    /\ UNCHANGED <<frame, dl>>
    /\ UNCHANGED <<video, concurrent_updates>>
    /\ UNCHANGED splitVars

\* open(p, 'wb') by request r on what is at p (line 97): the file is there and
\* empty; a file that was there keeps its inode, so whoever had it open for
\* writing still writes to the file at p.
open_wb(file, r) ==
    [owner |-> r, size |-> 0, short |-> FALSE, writers |-> file.writers \cup {r}]

\* pf.write of a chunk of m bytes by request r has put a first piece of them on
\* what is at p (line 98): when that is still the file r opened and it had
\* fewer than m bytes, it now holds some of them, short of m; when that file was
\* removed since, the bytes go to a file without a name and the path stays as
\* it is.
pf_write_some(file, r, m) ==
    IF r \in file.writers /\ file.size < m
    THEN [file EXCEPT !.size = m, !.short = TRUE]
    ELSE file

\* pf.write of m bytes at offset 0 by request r is complete, and the `with`
\* block closes the file (lines 97-98): what is at p, when still the file r
\* opened, has the m bytes (and what it had beyond them).
pf_write(file, r, m) ==
    IF r \in file.writers
    THEN [owner |-> r,
          size |-> IF file.size < m THEN m ELSE file.size,
          short |-> IF file.size > m THEN file.short ELSE FALSE,
          writers |-> file.writers \ {r}]
    ELSE file

\* The `with` block of line 97 closes the part file while an exception passes:
\* the file keeps what was written to it.
pf_close(file, r) ==
    IF r \in file.writers THEN [file EXCEPT !.writers = @ \ {r}] ELSE file

\* open(path, 'rb') in the executor thread (line 90); idx and parts are set
\* (lines 89, 91).  The bytes that will be read are those of the file opened.
SplitOpen(r) ==
    /\ pc[r] = "splitting"
    /\ frame[r].at = "open@90"
    /\ fs[filepath[r]] # NoFile
    /\ \E n \in stat_sizes(fs[filepath[r]]) :
          frame' = [frame EXCEPT ![r] = [NoFrame EXCEPT !.n = n, !.at = "read@93"]]
    /\ splitCalls' = [splitCalls EXCEPT ![r] = @ + 1]
    /\ UNCHANGED <<pc, url, filepath, size, parts, idx, err, fs, msgs, uploads, removed,
                   delFails, escaped, fetchCalls, sent>>
    /\ UNCHANGED dl
    /\ UNCHANGED <<video, concurrent_updates>>
    /\ UNCHANGED splitVars

\* f.read(chunk_size) gives a chunk and open(part_path, 'wb') creates or empties
\* the part file (lines 93-97): the part is on disk with 0 bytes.
SplitRead(r) ==
    /\ pc[r] = "splitting"
    /\ frame[r].at = "read@93"
    /\ LET fr == frame[r]
           len == read_len(fr.n, fr.pos, CHUNK_SIZE)
           p == part_path(filepath[r], fr.idx)
       IN /\ len > 0
          /\ fs' = [fs EXCEPT ![p] = open_wb(@, r)]
          /\ frame' = [frame EXCEPT ![r] =
                          [fr EXCEPT !.pos = @ + len, !.chunk = len, !.wrote = 0,
                                     !.at = "write@98"]]
    /\ UNCHANGED <<pc, url, filepath, size, parts, idx, err, msgs, uploads, removed,
                   splitCalls, delFails, escaped, fetchCalls, sent>>
    /\ UNCHANGED dl
    /\ UNCHANGED <<video, concurrent_updates>>
    /\ UNCHANGED splitVars

\* pf.write(chunk) is under way (line 98): one more piece of the chunk, not the
\* last, is on disk, where every other thread and the event loop see it.
SplitWriteSome(r) ==
    /\ pc[r] = "splitting"
    /\ frame[r].at = "write@98"
    /\ frame[r].wrote + 1 < MaxPieces
    /\ frame[r].chunk > 1
    /\ LET fr == frame[r]
           p == part_path(filepath[r], fr.idx)
       IN /\ fs' = [fs EXCEPT ![p] = pf_write_some(@, r, fr.chunk)]
          /\ frame' = [frame EXCEPT ![r] = [fr EXCEPT !.wrote = @ + 1]]
    /\ UNCHANGED <<pc, url, filepath, size, parts, idx, err, msgs, uploads, removed,
                   splitCalls, delFails, escaped, fetchCalls, sent>>
    /\ UNCHANGED dl
    /\ UNCHANGED <<video, concurrent_updates>>
    /\ UNCHANGED splitVars

\* pf.write(chunk) returns, the part file is closed, its path appended and idx
\* incremented (lines 98-100).
SplitWrite(r) ==
    /\ pc[r] = "splitting"
    /\ frame[r].at = "write@98"
    /\ LET fr == frame[r]
           p == part_path(filepath[r], fr.idx)
       IN /\ fs' = [fs EXCEPT ![p] = pf_write(@, r, fr.chunk)]
          /\ frame' = [frame EXCEPT ![r] =
                          [fr EXCEPT !.idx = next_idx(@), !.parts = Append(@, fr.idx),
                                     !.chunk = 0, !.wrote = 0, !.at = "read@93"]]
    /\ UNCHANGED <<pc, url, filepath, size, parts, idx, err, msgs, uploads, removed,
                   splitCalls, delFails, escaped, fetchCalls, sent>>
    /\ UNCHANGED dl
    /\ UNCHANGED <<video, concurrent_updates>>
    /\ UNCHANGED splitVars

\* The read comes back empty: split_file returns its list (lines 93-95, 101)
\* and the coroutine gets it (line 168).
SplitOk(r) ==
    /\ pc[r] = "splitting"
    /\ frame[r].at = "read@93"
    /\ read_len(frame[r].n, frame[r].pos, CHUNK_SIZE) = 0
    /\ parts' = [parts EXCEPT ![r] = frame[r].parts]
    /\ frame' = [frame EXCEPT ![r] = NoFrame]
    /\ pc' = [pc EXCEPT ![r] = "split_done"]
    /\ UNCHANGED <<url, filepath, size, idx, err, fs, msgs, uploads, removed,
                   splitCalls, delFails, escaped, fetchCalls, sent>>
    /\ UNCHANGED dl
    /\ UNCHANGED <<video, concurrent_updates>>
    /\ UNCHANGED splitVars

\* split_file raises: open(path) finds no file (line 90); or, with a chunk
\* read, open(part_path, 'wb') fails and leaves the disk as it was (line 97);
\* or pf.write fails (line 98) and the part file keeps the pieces that reached
\* it: none of the chunk, or some of it and short of all.
SplitFail(r) ==
    /\ pc[r] = "splitting"
    /\ LET fr == frame[r]
           p == part_path(filepath[r], fr.idx)
       IN \/ /\ fr.at = "open@90"
             /\ fs[filepath[r]] = NoFile
             /\ err' = [err EXCEPT ![r] = ENOENT(filepath[r])]
             /\ splitCalls' = [splitCalls EXCEPT ![r] = @ + 1]
             /\ UNCHANGED fs
          \/ /\ fr.at = "read@93"
             /\ read_len(fr.n, fr.pos, CHUNK_SIZE) > 0
             /\ err' = [err EXCEPT ![r] = ENOSPC_AT(p)]
             /\ UNCHANGED <<fs, splitCalls>>
          \/ /\ fr.at = "write@98"
             /\ fs' = [fs EXCEPT ![p] = pf_close(@, r)]
             /\ err' = [err EXCEPT ![r] = ENOSPC]
             /\ UNCHANGED splitCalls
    /\ frame' = [frame EXCEPT ![r] = NoFrame]
    /\ pc' = [pc EXCEPT ![r] = "edit_splitfail"]
    /\ UNCHANGED <<url, filepath, size, parts, idx, msgs, uploads, removed,
                   delFails, escaped, fetchCalls, sent>>
    /\ UNCHANGED dl
    /\ UNCHANGED <<video, concurrent_updates>>
    /\ UNCHANGED splitVars

\* The head of `for p in parts` at position i: open(p) and the send_document
\* call for the part, which reads the file (lines 169-171); or past the last
\* part os.remove(filepath), after which the success edit is made (lines
\* 176-180).
ForParts(r, i) ==
    /\ idx' = [idx EXCEPT ![r] = i]
    /\ IF has_next(i, Len(parts[r]))
       THEN LET p == part_path(filepath[r], parts[r][i]) IN
            /\ UNCHANGED <<fs, removed, delFails>>
            /\ IF fs[p] # NoFile
               THEN /\ uploads' = [uploads EXCEPT ![r] =
                                      Append(@, [part |-> parts[r][i], st |-> "inflight"])]
                    /\ sent' = [sent EXCEPT ![r] = Append(@, document(fs[p]))]
                    /\ pc' = [pc EXCEPT ![r] = "uploading_part"]
                    /\ UNCHANGED err
               ELSE /\ err' = [err EXCEPT ![r] = ENOENT(p)]
                    /\ pc' = [pc EXCEPT ![r] = "edit_splitfail"]
                    /\ UNCHANGED <<uploads, sent>>
       ELSE /\ \E delOk \in del_outcomes(fs, filepath[r], delFails[r]) :
                /\ fs' = os_remove(fs, filepath[r], delOk)
                /\ delFails' = [delFails EXCEPT ![r] = del_count(@, delOk)]
            /\ removed' = [removed EXCEPT ![r] = @ \cup {filepath[r]}]
            /\ pc' = [pc EXCEPT ![r] = "edit_done_split"]
            /\ UNCHANGED <<err, sent, uploads>>

\* The coroutine resumes with the list of parts and enters the loop (line 169).
PartLoop(r) ==
    /\ pc[r] = "split_done"
    /\ LoopFree(r)
    /\ ForParts(r, 1)
    /\ UNCHANGED <<url, filepath, size, parts, msgs, splitCalls, escaped>>
    /\ UNCHANGED fetchCalls
    /\ UNCHANGED <<frame, dl>>
    /\ UNCHANGED <<video, concurrent_updates>>
    /\ UNCHANGED splitVars

\* send_document of part idx returns and os.remove(p) is called in its
\* try/except-pass (lines 171-175); the coroutine goes on to the head of the
\* loop without an await.
SendPartOk(r) ==
    /\ pc[r] = "uploading_part"
    /\ LoopFree(r)
    /\ uploads' = [uploads EXCEPT ![r] = settle(@, "ok")]
    /\ LET p == part_path(filepath[r], remove_target(parts[r], idx[r])) IN
       \E delOk \in del_outcomes(fs, p, delFails[r]) :
          /\ fs' = os_remove(fs, p, delOk)
          /\ delFails' = [delFails EXCEPT ![r] = del_count(@, delOk)]
          /\ removed' = [removed EXCEPT ![r] = @ \cup {p}]
          /\ IF remove_raises(delOk)
             THEN /\ err' = [err EXCEPT ![r] = EPERM(p)]
                  /\ pc' = [pc EXCEPT ![r] = "edit_splitfail"]
                  /\ UNCHANGED idx
             ELSE /\ idx' = [idx EXCEPT ![r] = next_part(@)]
                  /\ pc' = [pc EXCEPT ![r] = "for@169"]
                  /\ UNCHANGED err
    /\ UNCHANGED <<url, filepath, size, parts, msgs, splitCalls, escaped>>
    /\ UNCHANGED <<fetchCalls, sent>>
    /\ UNCHANGED <<frame, dl>>
    /\ UNCHANGED <<video, concurrent_updates>>
    /\ UNCHANGED splitVars

\* The next turn of the loop, on the event loop's thread right after the
\* os.remove of the part before: the open and send of lines 170-171, or
\* os.remove(filepath) of line 177.  Pool threads of other requests may have
\* run since that os.remove.
NextPart(r) ==
    /\ pc[r] = "for@169"
    /\ ForParts(r, idx[r])
    /\ UNCHANGED <<url, filepath, size, parts, msgs, splitCalls, escaped>>
    /\ UNCHANGED fetchCalls
    /\ UNCHANGED <<frame, dl>>
    /\ UNCHANGED <<video, concurrent_updates>>
    /\ UNCHANGED splitVars

\* send_document of part idx raises: the except clause of line 181.
SendPartFail(r) ==
    /\ pc[r] = "uploading_part"
    /\ LoopFree(r)
    /\ uploads' = [uploads EXCEPT ![r] = settle(@, "failed")]
    /\ \E e \in UploadErrors : err' = [err EXCEPT ![r] = e]
    /\ pc' = [pc EXCEPT ![r] = "edit_splitfail"]
    /\ UNCHANGED <<url, filepath, size, parts, idx, fs, msgs, removed,
                   splitCalls, delFails, escaped>>
    /\ UNCHANGED <<fetchCalls, sent>>
    /\ UNCHANGED <<frame, dl>>
    /\ UNCHANGED <<video, concurrent_updates>>
    /\ UNCHANGED splitVars

\* await status.edit_text("Done - big file sent in parts.") (line 180), inside
\* the try block: its failure is caught by line 181.
EditDoneSplit(r) ==
    /\ pc[r] = "edit_done_split"
    /\ LoopFree(r)
    /\ \E ok \in BOOLEAN :
        /\ Say(r, "DoneParts", NoErr, FALSE, ok)
        /\ pc' = [pc EXCEPT ![r] = IF ok THEN "Done" ELSE "edit_splitfail"]
        /\ err' = [err EXCEPT ![r] = IF ok THEN @ ELSE EDIT_ERROR]
    /\ UNCHANGED <<url, filepath, size, parts, idx, fs, uploads, removed,
                   splitCalls, delFails, escaped>>
    /\ UNCHANGED <<fetchCalls, sent>>
    /\ UNCHANGED <<frame, dl>>
    /\ UNCHANGED <<video, concurrent_updates>>
    /\ UNCHANGED splitVars

\* await status.edit_text(f"Failed to split/upload parts: {e}") (line 183)
EditSplitFailed(r) ==
    /\ pc[r] = "edit_splitfail"
    /\ LoopFree(r)
    /\ \E ok \in BOOLEAN :
        /\ Say(r, "SplitUploadFailed", err[r], FALSE, ok)
        /\ Leave(r, ok, "Failed")
    /\ UNCHANGED <<url, filepath, size, parts, idx, err, fs, uploads, removed,
                   splitCalls, delFails>>
    /\ UNCHANGED <<fetchCalls, sent>>
    /\ UNCHANGED <<frame, dl>>
    /\ UNCHANGED <<video, concurrent_updates>>
    /\ UNCHANGED splitVars

(***************************************************************************)
(* Spec: the updates handled by the Application of main().                 *)
(***************************************************************************)
\* Each request asks for one of the videos, two requests for the same video or
\* for different ones; the Application handles updates side by side or one at
\* a time.
Init ==
    /\ SplitIdle
    /\ \E u \in [Requests -> Urls], c \in BOOLEAN : BotFresh(u, c)

Next ==
    \E r \in Requests :
        \/ Ack(r)
        \/ ExtractInfo(r)
        \/ Probe(r)
        \/ ListDir(r)
        \/ ScanNext(r)
        \/ DownloadOk(r)
        \/ DownloadNotFound(r)
        \/ DownloadFail(r)
        \/ EditDownloadFailed(r)
        \/ SizeCheck(r)
        \/ EditAccessFailed(r)
        \/ EditUploading(r)
        \/ SendWholeOk(r)
        \/ SendWholeFail(r)
        \/ EditUploadFailed(r)
        \/ EditDoneDirect(r)
        \/ EditSplitting(r)
        \/ SplitOpen(r)
        \/ SplitRead(r)
        \/ SplitWriteSome(r)
        \/ SplitWrite(r)
        \/ SplitOk(r)
        \/ SplitFail(r)
        \/ PartLoop(r)
        \/ SendPartOk(r)
        \/ NextPart(r)
        \/ SendPartFail(r)
        \/ EditDoneSplit(r)
        \/ EditSplitFailed(r)

Spec == Init /\ [][Next]_vars

(***************************************************************************)
(* Properties of split_file (SpecSplit).                                   *)
(***************************************************************************)
\* The bytes of the part files ps, read from `files` and joined in order.
RECURSIVE concat_parts(_, _)
concat_parts(ps, files) ==
    IF ps = <<>> THEN <<>> ELSE files[Head(ps)] \o concat_parts(Tail(ps), files)

\* C2: for every file and every chunk size >= 1, the part files returned by
\* split_file, concatenated in the order of the returned list, are exactly the
\* bytes of the file.
C2_RoundTrip ==
    sf_pc = "returned" => concat_parts(sf_parts, sf_files) = sf_data

\* A file split into at least three parts, the last one short, joins back.
C2_Witness ==
    /\ sf_pc = "returned"
    /\ Len(sf_parts) >= 3
    /\ Len(sf_data) % sf_chunk # 0
    /\ \E i \in 1..Len(sf_data) : sf_data[i] # sf_data[1]
    /\ concat_parts(sf_parts, sf_files) = sf_data

\* C3: split_file returns exactly ceil(N / C) parts for a file of N > 0 bytes,
\* and for N = 0 it returns no part and creates no part file.
C3_PartCount ==
    sf_pc = "returned" =>
        /\ Len(sf_data) > 0 =>
              Len(sf_parts) = (Len(sf_data) + sf_chunk - 1) \div sf_chunk
        /\ Len(sf_data) = 0 => (sf_parts = <<>> /\ DOMAIN sf_files = {SRC})
        /\ Cardinality(DOMAIN sf_files \ {SRC}) = Len(sf_parts)

\* Both cases happen: an empty file split into nothing is covered by the
\* initial inputs; here a file of a whole number of chunks gets exactly N / C parts.
C3_Witness ==
    /\ sf_pc = "returned"
    /\ Len(sf_data) = 2 * sf_chunk
    /\ sf_chunk >= 2
    /\ Len(sf_parts) = 2

(***************************************************************************)
(* Properties of handle_download (Spec).                                   *)
(***************************************************************************)
\* The send_document calls of r for the whole file / for a part.
WholeUploads(r) == {j \in 1..Len(uploads[r]) : uploads[r][j].part = 0}
PartUploads(r) == {j \in 1..Len(uploads[r]) : uploads[r][j].part # 0}

\* The kinds of status text.
Progress == {"Uploading", "Splitting"}
Success == {"DoneSent", "DoneParts"}
Failure == {"DownloadFailed", "AccessFailed", "UploadFailed", "SplitUploadFailed"}

\* Every status call of r returned normally.
AllDelivered(r) == \A j \in 1..Len(msgs[r]) : msgs[r][j].ok

\* The files on disk that request r downloaded or wrote as parts.
Artifacts(r) == {p \in Paths : fs[p].owner = r}

\* C1: after a terminal state reached past the size check, no downloaded file
\* and no part file of the request remains on disk (every attempted deletion
\* taken to succeed; stated here for runs in which every status call returned,
\* so that the handler ended by one of its own returns).
C1_NoArtifactAfterTerminal ==
    \A r \in Requests :
        (pc[r] \in Terminal /\ size[r] >= 0 /\ delFails[r] = 0 /\ AllDelivered(r))
            => Artifacts(r) = {}

\* C4: a file of at most TG_SIZE_LIMIT bytes (the limit itself and 0 included)
\* takes the direct-send path and split_file is never called; a larger file
\* (TG_SIZE_LIMIT + 1 included) takes the splitting path and is never uploaded
\* whole.
DirectPcs == {"edit_uploading", "uploading", "edit_upfail", "edit_done_direct"}
SplitPcs == {"edit_splitting", "splitting", "split_done", "uploading_part", "for@169",
             "edit_done_split", "edit_splitfail"}
C4_ThresholdBoundary ==
    \A r \in Requests :
        size[r] >= 0 =>
            /\ size[r] <= TG_SIZE_LIMIT =>
                  /\ pc[r] \in DirectPcs \cup Terminal
                  /\ splitCalls[r] = 0
                  /\ PartUploads(r) = {}
                  /\ \A j \in 1..Len(msgs[r]) : msgs[r][j].kind # "Splitting"
            /\ size[r] > TG_SIZE_LIMIT =>
                  /\ pc[r] \in SplitPcs \cup Terminal
                  /\ WholeUploads(r) = {}
                  /\ \A j \in 1..Len(msgs[r]) : msgs[r][j].kind # "Uploading"

\* A file of exactly the limit was sent whole while a file one byte larger was
\* split and sent as two parts.
C4_Witness ==
    \E r, q \in Requests :
        /\ size[r] = TG_SIZE_LIMIT
        /\ uploads[r] = <<[part |-> 0, st |-> "ok"]>>
        /\ size[q] = TG_SIZE_LIMIT + 1
        /\ splitCalls[q] = 1
        /\ uploads[q] = <<[part |-> 1, st |-> "ok"], [part |-> 2, st |-> "ok"]>>

\* C5: on the split path the parts are uploaded in sequence-index order from
\* part 1: the j-th send_document call is for part j, it starts only when every
\* earlier one has succeeded, and after a successful run every part returned by
\* split_file was uploaded exactly once.
C5_UploadOrder ==
    \A r \in Requests :
        /\ \A j \in PartUploads(r) :
              /\ uploads[r][j].part = j
              /\ j < Len(uploads[r]) => uploads[r][j].st = "ok"
        /\ (pc[r] = "Done" /\ splitCalls[r] > 0) =>
              /\ Len(uploads[r]) = Len(parts[r])
              /\ \A j \in 1..Len(parts[r]) :
                    uploads[r][j] = [part |-> parts[r][j], st |-> "ok"]

\* Three parts were uploaded, 1 then 2 then 3, and the third is in flight
\* after the first two succeeded.
C5_Witness ==
    \E r \in Requests :
        /\ pc[r] = "uploading_part"
        /\ uploads[r] = <<[part |-> 1, st |-> "ok"], [part |-> 2, st |-> "ok"],
                          [part |-> 3, st |-> "inflight"]>>

\* C6: for every request, on every path, the status calls made on the reply
\* target are one acknowledgement, then at most one progress text, then exactly
\* one terminal text (success or failure), and nothing after it.  Stated for
\* the requests whose acknowledgement was delivered (there is a status message
\* to edit).
Terminals(m) == {j \in 1..Len(m) : m[j].kind \in Success \cup Failure}
StreamShape(m) ==
    /\ m[1].kind = "Queued"
    /\ \A j \in 2..Len(m) : m[j].kind # "Queued"
    /\ Cardinality({j \in 1..Len(m) : m[j].kind \in Progress}) <= 1
    /\ Cardinality(Terminals(m)) <= 1
    /\ \A j \in Terminals(m) : j = Len(m)
C6_MessageStream ==
    \A r \in Requests :
        (Len(msgs[r]) >= 1 /\ msgs[r][1].ok) =>
            /\ StreamShape(msgs[r])
            /\ pc[r] \in Terminal => Cardinality(Terminals(msgs[r])) = 1

\* C7: no request has its file uploaded whole and also split or uploaded as
\* parts.
C7_WholeXorParts ==
    \A r \in Requests :
        WholeUploads(r) # {} => (splitCalls[r] = 0 /\ PartUploads(r) = {})

\* One request finished a whole-file send without any split, the other
\* finished a three-part send without any whole-file upload.
C7_Witness ==
    \E r, q \in Requests :
        /\ pc[r] = "Done" /\ WholeUploads(r) # {} /\ splitCalls[r] = 0
        /\ pc[q] = "Done" /\ Cardinality(PartUploads(q)) = 3 /\ WholeUploads(q) = {}

\* C8: with several requests in flight, also for the same URL, the downloaded
\* file and the part files a request is working on are never deleted under it
\* by another request: from the download to its own cleanup the file at
\* filepath is on disk, and so are the parts it has still to upload.
HoldsMedia == {"downloaded", "edit_uploading", "uploading", "edit_splitting",
               "splitting", "split_done", "uploading_part", "for@169"}
C8_Isolation ==
    \A r \in Requests :
        /\ pc[r] \in HoldsMedia => fs[filepath[r]] # NoFile
        /\ pc[r] = "split_done" =>
              \A j \in 1..Len(parts[r]) :
                  fs[part_path(filepath[r], parts[r][j])] # NoFile
        /\ pc[r] \in {"uploading_part", "for@169"} =>
              \A j \in idx[r]..Len(parts[r]) :
                  fs[part_path(filepath[r], parts[r][j])] # NoFile

\* C9: when the whole-file upload fails, the success text is never sent, and
\* the request ends in Failed having made exactly one upload, with the
\* upload-failed text carrying the cause as its last status call and with
\* os.remove(filepath) run by the finally clause: the file the request
\* downloaded is gone (unless that os.remove itself raised, which is swallowed).
WholeUploadFailed(r) == \E j \in WholeUploads(r) : uploads[r][j].st = "failed"
C9_DirectUploadFailure ==
    \A r \in Requests :
        WholeUploadFailed(r) =>
            /\ \A j \in 1..Len(msgs[r]) : msgs[r][j].kind \notin Success
            /\ Len(uploads[r]) = 1
            /\ pc[r] \in {"edit_upfail", "Failed"}
            /\ pc[r] = "Failed" =>
                  /\ msgs[r][Len(msgs[r])].kind = "UploadFailed"
                  /\ msgs[r][Len(msgs[r])].cause \in UploadErrors
                  /\ msgs[r][Len(msgs[r])].cause = err[r]
                  /\ filepath[r] \in removed[r]
                  /\ delFails[r] = 0 => Artifacts(r) = {}

\* A request ended in Failed after its only upload failed: the upload-failed
\* text was delivered and the downloaded file is no longer on disk.
C9_Witness ==
    \E r \in Requests :
        /\ pc[r] = "Failed"
        /\ uploads[r] = <<[part |-> 0, st |-> "failed"]>>
        /\ msgs[r][Len(msgs[r])] =
              Msg("UploadFailed", CHOOSE e \in UploadErrors : TRUE, FALSE, TRUE)
        /\ fs[filepath[r]] = NoFile

\* Case-insensitive containment, letter by letter.
same_letter(a, b) ==
    a = b \/ \E i \in 1..Len(UPPER) : {a, b} = {UPPER[i], LOWER[i]}
ci_contains(hay, kw) ==
    \E k \in 0..(Len(hay) - Len(kw)) :
        \A i \in 1..Len(kw) : same_letter(hay[k + i], kw[i])
Restricted(cause) ==
    ci_contains(cause, KW_AGE) \/ ci_contains(cause, KW_LOGIN) \/ ci_contains(cause, KW_PRIVATE)

\* Nothing past the download was done for r: no size check, split, upload or
\* file deletion.
NothingPastDownload(r) ==
    /\ size[r] = -1
    /\ splitCalls[r] = 0
    /\ uploads[r] = <<>>
    /\ removed[r] = {}
    /\ parts[r] = <<>>

\* line 135 puts the hint on a text exactly when the text holds a keyword in
\* some casing, for every text download_with_ytdlp can raise.
HintMatchesKeywords == \A e \in FetchErrors : needs_hint(e) <=> Restricted(e)

\* C10: when the Fetcher fails (the acknowledged request ends without a
\* downloaded file), the request ends in Failed, its terminal text is the
\* download-failed text with the raw cause, that text has the credential hint
\* exactly when the cause contains 'age-restricted', 'login' or 'private'
\* compared case-insensitively, and no size check, split, upload or deletion
\* was performed.
C10_DownloadFailure ==
    \A r \in Requests :
        /\ HintMatchesKeywords
        /\ pc[r] = "edit_dlfail" =>
              (NothingPastDownload(r) /\ err[r] \in FetchErrors /\ Len(msgs[r]) = 1)
        /\ (pc[r] \in Terminal /\ filepath[r] = NoPath
              /\ Len(msgs[r]) >= 1 /\ msgs[r][1].ok) =>
              /\ pc[r] = "Failed"
              /\ Len(msgs[r]) = 2
              /\ msgs[r][2].kind = "DownloadFailed"
              /\ msgs[r][2].cause \in FetchErrors
              /\ msgs[r][2].cause = err[r]
              /\ msgs[r][2].hint <=> Restricted(msgs[r][2].cause)
              /\ NothingPastDownload(r)

\* One request failed with an upper-case "LOGIN" cause and got the hint, the
\* other failed with "log in to view" (no keyword) and got none.
C10_Witness ==
    \E r, q \in Requests :
        /\ pc[r] = "Failed" /\ pc[q] = "Failed"
        /\ Len(msgs[r]) = 2 /\ Len(msgs[q]) = 2
        /\ msgs[r][2].kind = "DownloadFailed" /\ msgs[q][2].kind = "DownloadFailed"
        /\ msgs[r][2].cause =
              download_error_text(<<"L","O","G","I","N"," ","r","e","q","u","i","r","e","d">>)
        /\ msgs[r][2].hint
        /\ msgs[q][2].cause =
              download_error_text(<<"l","o","g"," ","i","n"," ","t","o"," ","v","i","e","w">>)
        /\ ~msgs[q][2].hint

(***************************************************************************)
(* split_file: frame, sizes and offsets of the parts (SpecSplit).          *)
(***************************************************************************)
\* C13: split_file leaves its source unchanged: after it returned or raised,
\* the file at the source path still exists with the bytes it had before the
\* call, and every part path it wrote to differs from the source path.
C13_SourceUnchanged ==
    sf_pc \in {"returned", "raised"} =>
        /\ SRC \in DOMAIN sf_files
        /\ sf_files[SRC] = sf_data
        /\ \A k \in 1..Len(sf_parts) : sf_parts[k] # SRC
        /\ \A k \in 1..Len(split_file(sf_data, sf_chunk)) :
              part_path(SRC, split_file(sf_data, sf_chunk)[k].idx) # SRC

\* split_file raised after writing two parts of a file that is not constant:
\* the source still holds its bytes.
C13_Witness ==
    /\ sf_pc = "raised"
    /\ Len(sf_parts) = 2
    /\ Len(sf_data) >= 3
    /\ \E i \in 1..Len(sf_data) : sf_data[i] # sf_data[1]
    /\ sf_files[SRC] = sf_data
    /\ sf_files[sf_parts[2]] # sf_data

min(a, b) == IF a < b THEN a ELSE b

\* C15: every part produced by split_file(path, C) has at least 1 and at most
\* C bytes, every part but the last has exactly C bytes, and the i-th part
\* holds the source bytes at offsets [(i-1)*C, min(i*C, N)).
C15_PartBytes ==
    sf_pc = "returned" =>
        \A i \in 1..Len(sf_parts) :
            LET d == sf_files[sf_parts[i]] IN
            /\ Len(d) >= 1
            /\ Len(d) <= sf_chunk
            /\ i < Len(sf_parts) => Len(d) = sf_chunk
            /\ d = SubSeq(sf_data, (i - 1) * sf_chunk + 1,
                          min(i * sf_chunk, Len(sf_data)))

\* Three parts with chunk size 2: two full windows and a last part of one byte.
C15_Witness ==
    /\ sf_pc = "returned"
    /\ sf_chunk = 2
    /\ Len(sf_parts) = 3
    /\ Len(sf_files[sf_parts[1]]) = 2
    /\ Len(sf_files[sf_parts[3]]) = 1
    /\ sf_files[sf_parts[3]] = <<sf_data[5]>>

(***************************************************************************)
(* Failures, retries and deletion failures (Spec).                         *)
(***************************************************************************)
\* Request r met a download, stat, split or upload failure (a raising status
\* call is not one of these).
HasFailed(r) == err[r] \notin {NoErr, EDIT_ERROR}

\* The last status call issued by r.
LastMsg(r) == msgs[r][Len(msgs[r])]

\* Within one request: at most one fetch, one split, one upload per document,
\* a failed upload is the last upload, and a request that failed ends in Failed
\* with a failure message carrying the cause.
NoRetryState(r) ==
    /\ fetchCalls[r] <= 1
    /\ splitCalls[r] <= 1
    /\ Cardinality(WholeUploads(r)) <= 1
    /\ \A i, j \in PartUploads(r) : uploads[r][i].part = uploads[r][j].part => i = j
    /\ \A j \in 1..Len(uploads[r]) : uploads[r][j].st = "failed" => j = Len(uploads[r])
    /\ (HasFailed(r) /\ pc[r] \in Terminal) =>
          /\ pc[r] = "Failed"
          /\ Len(msgs[r]) > 0
          /\ LastMsg(r).kind \in Failure
          /\ LastMsg(r).cause = err[r]
          /\ \A j \in 1..Len(msgs[r]) : msgs[r][j].kind \notin Success

\* Once r has failed, no step fetches, splits or uploads for r again, and the
\* recorded cause stays.
NoRetryStep(r) ==
    HasFailed(r) =>
        /\ fetchCalls'[r] = fetchCalls[r]
        /\ splitCalls'[r] = splitCalls[r]
        /\ uploads'[r] = uploads[r]
        /\ sent'[r] = sent[r]
        /\ err'[r] = err[r]

\* C11: every failure is terminal and nothing is retried: per request at most
\* one fetch, at most one split_file call, each whole file or part handed to
\* send_document at most once; after the first download, stat, split or upload
\* failure no further fetch, split or upload happens (a failed upload of part k
\* is the last upload) and the terminal message is a failure message that
\* contains the cause.
C11_NoRetry ==
    /\ [](\A r \in Requests : NoRetryState(r))
    /\ [][\A r \in Requests : NoRetryStep(r)]_vars

\* The upload of part 2 of 3 failed: part 3 was never handed over, the request
\* ended in Failed and its last message carries the cause.
C11_Witness ==
    \E r \in Requests :
        /\ pc[r] = "Failed"
        /\ Len(parts[r]) = 3
        /\ uploads[r] = <<[part |-> 1, st |-> "ok"], [part |-> 2, st |-> "failed"]>>
        /\ HasFailed(r)
        /\ LastMsg(r).kind = "SplitUploadFailed"
        /\ LastMsg(r).cause = err[r]
        /\ fetchCalls[r] = 1
        /\ splitCalls[r] = 1

\* Every send_document call of r returned normally, and all of them were made:
\* the whole file once on the direct path, every part once on the split path.
DeliveredAll(r) ==
    IF size[r] <= TG_SIZE_LIMIT
    THEN uploads[r] = <<[part |-> 0, st |-> "ok"]>>
    ELSE uploads[r] = [k \in 1..Len(parts[r]) |-> [part |-> parts[r][k], st |-> "ok"]]

\* str(e) of the OSError of a failing os.remove, for every path of the model.
DeletionErrors == {EPERM(p) : p \in Paths}

\* C12: a failing os.remove never changes the outcome: no deletion error is
\* ever recorded or put in a message, and a request with failed deletions and
\* no download, stat, split or upload failure (status calls delivered) still
\* uploads every remaining part and ends in Done with the success message.
C12_DeletionSuppressed ==
    \A r \in Requests :
        /\ err[r] \notin DeletionErrors
        /\ \A j \in 1..Len(msgs[r]) : msgs[r][j].cause \notin DeletionErrors
        /\ (delFails[r] > 0 /\ pc[r] \in Terminal /\ ~HasFailed(r) /\ AllDelivered(r)) =>
              /\ pc[r] = "Done"
              /\ LastMsg(r).kind \in Success
              /\ DeliveredAll(r)
              /\ \A j \in 1..Len(msgs[r]) : msgs[r][j].kind \notin Failure

\* The removal of part 1 of 3 failed (the part is still on disk): parts 2 and 3
\* were uploaded all the same and the request ended in Done.
C12_Witness ==
    \E r \in Requests :
        /\ pc[r] = "Done"
        /\ delFails[r] > 0
        /\ Len(parts[r]) = 3
        /\ fs[part_path(filepath[r], 1)].owner = r
        /\ part_path(filepath[r], 1) \in removed[r]
        /\ DeliveredAll(r)
        /\ LastMsg(r).kind = "DoneParts"

(***************************************************************************)
(* Offloaded calls and the acceptance of other requests (Spec).            *)
(***************************************************************************)
\* Some step of request r: of its coroutine or of its executor thread.
StepOf(r) ==
    \/ Ack(r) \/ ExtractInfo(r) \/ Probe(r) \/ ListDir(r) \/ ScanNext(r) \/ DownloadOk(r)
    \/ DownloadNotFound(r)
    \/ DownloadFail(r) \/ EditDownloadFailed(r)
    \/ SizeCheck(r) \/ EditAccessFailed(r) \/ EditUploading(r) \/ SendWholeOk(r)
    \/ SendWholeFail(r) \/ EditUploadFailed(r) \/ EditDoneDirect(r)
    \/ EditSplitting(r) \/ SplitOpen(r) \/ SplitRead(r) \/ SplitWriteSome(r)
    \/ SplitWrite(r) \/ SplitOk(r) \/ SplitFail(r) \/ PartLoop(r)
    \/ SendPartOk(r) \/ NextPart(r) \/ SendPartFail(r) \/ EditDoneSplit(r)
    \/ EditSplitFailed(r)

\* The download_with_ytdlp or split_file call of a is started and not returned.
Outstanding(a) ==
    pc[a] \in {"downloading", "fetched", "listing", "scanning", "found", "splitting"}

\* C14: a request whose download or split is outstanding never stalls another
\* request: while a's download_with_ytdlp (or split_file) call has not returned,
\* every other request that has not ended can take its next step, whatever
\* state it is in, so it can be accepted and run through to its terminal state.
C14_NoStall ==
    \A a, b \in Requests :
        (a # b /\ Outstanding(a) /\ pc[b] \notin Terminal) => ENABLED StepOf(b)

(***************************************************************************)
(* Size of the documents given to send_document (Spec).                    *)
(***************************************************************************)
\* C17: every document handed to send_document by handle_download, the whole
\* file or a part, has at most TG_SIZE_LIMIT bytes: the whole file is sent only
\* when its size is <= TG_SIZE_LIMIT, and every part has at most CHUNK_SIZE
\* bytes, which is less than TG_SIZE_LIMIT.  (A document read from a short file
\* has fewer bytes than the size recorded for it.)
C17_SentWithinLimit ==
    /\ CHUNK_SIZE < TG_SIZE_LIMIT
    /\ \A r \in Requests :
          /\ Len(sent[r]) = Len(uploads[r])
          /\ \A j \in 1..Len(sent[r]) :
                /\ sent[r][j].size <= TG_SIZE_LIMIT
                /\ uploads[r][j].part # 0 => sent[r][j].size <= CHUNK_SIZE
                /\ uploads[r][j].part = 0 => size[r] <= TG_SIZE_LIMIT

\* One request sent a whole file of exactly TG_SIZE_LIMIT bytes, the other sent
\* a first part of exactly CHUNK_SIZE bytes and a last part of what was left.
C17_Witness ==
    \E r, q \in Requests :
        /\ uploads[r] = <<[part |-> 0, st |-> "ok"]>>
        /\ sent[r] = <<[size |-> TG_SIZE_LIMIT, short |-> FALSE]>>
        /\ uploads[q] = <<[part |-> 1, st |-> "ok"], [part |-> 2, st |-> "ok"]>>
        /\ sent[q] = <<[size |-> CHUNK_SIZE, short |-> FALSE],
                       [size |-> TG_SIZE_LIMIT + 1 - CHUNK_SIZE, short |-> FALSE]>>

(***************************************************************************)
(* Success only after delivery; deletion only after delivery (Spec).       *)
(***************************************************************************)
\* The document of r's k-th send_document call is the file in full: the whole
\* download, or the bytes split_file wrote for that part.
CompleteDocument(r, k) ==
    /\ ~sent[r][k].short
    /\ sent[r][k].size =
          IF uploads[r][k].part = 0
          THEN size[r]
          ELSE read_len(size[r], (uploads[r][k].part - 1) * CHUNK_SIZE, CHUNK_SIZE)

PartDelivered(r, i) ==
    \E j \in 1..Len(uploads[r]) : uploads[r][j] = [part |-> i, st |-> "ok"]

\* C19: no file is deleted before it has been delivered.  On the split path
\* os.remove is called on a part only after the upload of that same part
\* returned successfully, and before the upload of the next part starts; it is
\* called on the downloaded file only after every part was uploaded
\* successfully.  On the direct path it is called on the downloaded file only
\* after the upload attempt has finished.  (Stated on the calls of one request.)
C19_DeleteAfterDelivery ==
    \A r \in Requests :
        /\ \A i \in 1..Len(parts[r]) :
              part_path(filepath[r], parts[r][i]) \in removed[r] =>
                  PartDelivered(r, parts[r][i])
        /\ \A j \in 2..Len(uploads[r]) :
              uploads[r][j].part # 0 =>
                  part_path(filepath[r], uploads[r][j - 1].part) \in removed[r]
        /\ (size[r] > TG_SIZE_LIMIT /\ filepath[r] \in removed[r]) =>
              /\ splitCalls[r] = 1
              /\ pc[r] \in {"edit_done_split", "edit_splitfail"} \cup Terminal
              /\ \A i \in 1..Len(parts[r]) : PartDelivered(r, parts[r][i])
        /\ (size[r] >= 0 /\ size[r] <= TG_SIZE_LIMIT /\ filepath[r] \in removed[r]) =>
              /\ \A j \in 1..Len(uploads[r]) : uploads[r][j].st # "inflight"
              /\ uploads[r] # <<>> \/ err[r] = ENOENT(filepath[r])
              /\ pc[r] \in {"edit_done_direct"} \cup Terminal
        /\ removed[r] \subseteq
              {filepath[r]} \cup {part_path(filepath[r], parts[r][i]) : i \in 1..Len(parts[r])}

\* Part 1 was uploaded and then removed, part 2 is in flight and still on
\* disk, and so is the downloaded file.
C19_Witness ==
    \E r \in Requests :
        /\ pc[r] = "uploading_part"
        /\ idx[r] = 2
        /\ removed[r] = {part_path(filepath[r], 1)}
        /\ fs[part_path(filepath[r], 1)] = NoFile
        /\ fs[part_path(filepath[r], 2)] # NoFile
        /\ fs[filepath[r]] # NoFile
        /\ uploads[r] = <<[part |-> 1, st |-> "ok"], [part |-> 2, st |-> "inflight"]>>

(***************************************************************************)
(* Termination and the terminal message (Spec).                            *)
(***************************************************************************)
\* The calls r's split_file thread has made: the open of the source, then for
\* every part a read with the open of the part and the pieces of the write.
SplitProgress(fr) ==
    CASE fr.at = "open@90" -> 0
      [] fr.at = "read@93" -> (MaxPieces + 1) * (fr.idx - 1) + 1
      [] fr.at = "write@98" -> (MaxPieces + 1) * (fr.idx - 1) + 2 + fr.wrote

\* The most calls one split_file call makes.
SplitCallsMax == (MaxPieces + 1) * MaxParts + 1

\* The number of steps request r can still take, at most.
Rank(r) ==
    CASE pc[r] \in Terminal -> 0
      [] pc[r] \in {"edit_dlfail", "edit_access", "edit_upfail", "edit_splitfail"} -> 1
      [] pc[r] \in {"edit_done_direct", "edit_done_split"} -> 2
      [] pc[r] = "uploading" -> 3
      [] pc[r] = "edit_uploading" -> 4
      [] pc[r] = "for@169" -> 5 + 2 * (Len(parts[r]) - idx[r])
      [] pc[r] = "uploading_part" -> 4 + 2 * (Len(parts[r]) - idx[r])
      [] pc[r] = "split_done" -> 3 + 2 * Len(parts[r])
      [] pc[r] = "splitting" -> 4 + 2 * MaxParts + SplitCallsMax - SplitProgress(frame[r])
      [] pc[r] = "edit_splitting" -> 5 + 2 * MaxParts + SplitCallsMax
      [] pc[r] = "downloaded" -> 6 + 2 * MaxParts + SplitCallsMax
      [] pc[r] = "found" -> 7 + 2 * MaxParts + SplitCallsMax
      [] pc[r] = "scanning" -> 7 + 2 * MaxParts + SplitCallsMax + Cardinality(dl[r].cands)
      [] pc[r] = "listing" -> 11 + 3 * MaxParts + SplitCallsMax
      [] pc[r] = "fetched" -> 12 + 3 * MaxParts + SplitCallsMax
      [] pc[r] = "downloading" -> 13 + 3 * MaxParts + SplitCallsMax
      [] pc[r] = "start" -> 14 + 3 * MaxParts + SplitCallsMax

\* The handlers end: while a request has not ended some request has a step to
\* take, every step moves some request, and a request that moves gets strictly
\* closer to its end (so under fair scheduling, with every download, status
\* call and upload returning or raising, every request reaches Done or Failed).
HandlerTerminates ==
    /\ []((\E r \in Requests : pc[r] \notin Terminal) =>
              \E r \in Requests : ENABLED StepOf(r))
    /\ [][/\ \E r \in Requests :
                <<pc[r], idx[r], frame[r], dl[r]>>' # <<pc[r], idx[r], frame[r], dl[r]>>
          /\ \A r \in Requests :
                <<pc[r], idx[r], frame[r], dl[r]>>' # <<pc[r], idx[r], frame[r], dl[r]>>
                    => Rank(r)' < Rank(r)]_vars

\* C20: every accepted request eventually reaches Done or Failed and has
\* emitted its terminal message: a request whose acknowledgement was delivered
\* and whose handler has ended has a success or failure message among its
\* status calls.
C20_TerminalMessage ==
    \A r \in Requests :
        (pc[r] \in Terminal /\ Len(msgs[r]) >= 1 /\ msgs[r][1].ok) =>
            Terminals(msgs[r]) # {}

(***************************************************************************)
(* Names of the parts (SpecNames).                                         *)
(***************************************************************************)
\* The characters of a path in code-point order ('.' < '/' < digits < letters).
CHARS == <<".", "/", "0","1","2","3","4","5","6","7","8","9",
           "a","b","c","d","e","f","g","h","i","j","k","l","m",
           "n","o","p","q","r","s","t","u","v","w","x","y","z">>
ord(c) == CHOOSE k \in 1..Len(CHARS) : CHARS[k] = c

\* a < b as Python (and a sorted directory listing) compares two str.
str_less(a, b) ==
    LET d == {k \in 1..min(Len(a), Len(b)) : a[k] # b[k]} IN
    IF d = {}
    THEN Len(a) < Len(b)
    ELSE LET k == CHOOSE x \in d : \A y \in d : x <= y IN ord(a[k]) < ord(b[k])

\* C16: the i-th part written by split_file carries sequence index i in its
\* name (indices 1..n, no gap, no duplicate, so the part paths are pairwise
\* distinct), and for every number of parts n the part files listed in the
\* order of their names are in sequence-index order.
C16_NamesSorted ==
    /\ \A i \in 1..Len(sf_parts) : sf_parts[i] = part_path(SRC, i)
    /\ \A i \in 1..(Len(sf_parts) - 1) :
          /\ sf_parts[i] # sf_parts[i + 1]
          /\ str_less(sf_parts[i], sf_parts[i + 1])

====
